---- MODULE Spec2Model ----
(***************************************************************************)
(* Model of taiga/base/neighbors.py: the neighbor resolver get_neighbors   *)
(* and NeighborsSerializerMixin.get_neighbors.                             *)
(*                                                                         *)
(* The data store is a set of records; a queryset is a filter (an optional *)
(* id__in clause and an optional project clause) with an ordering.  One    *)
(* resolver call runs as a sequence of steps, one per interaction with the *)
(* query builder or the data store, so that another request's delete can   *)
(* fall between the windowed query and the point lookups.                  *)
(***************************************************************************)
EXTENDS Integers, Sequences, FiniteSets, TLC

\* ------------------------------------------------------------------ bounds
MaxRecords == 3

Ids == 1..MaxRecords

\* --------------------------------------------------------------- constants
\* SQL NULL / Python None as an id (row[2], row[3] of a first / last row)
NullId == 0
\* obj.project is None
NoProject == 0
Projects == {1, 2}

\* ----------------------------------------------------------------- records
\* A model instance of the record type (id, project, ref, subject).
Record(i, p) == [id |-> i, project |-> p, ref |-> 100 + i, subject |-> ToString(i)]

\* Python None where a model instance is expected.
NoneObj == [id |-> NullId, project |-> NoProject, ref |-> 0, subject |-> ""]

\* Neighbor = namedtuple("Neighbor", "left right")
Neighbor(l, r) == [left |-> l, right |-> r]

\* -------------------------------------------------------------- querysets
\* Orderings a queryset can carry; "asc" is the default manager's ordering.
Orderings == {"asc", "desc"}

DefaultOrdering == "asc"

\* type(obj).objects.get_queryset(): no filter, default ordering.
PlainQuerySet == [has_in |-> FALSE, in_ids |-> {}, order |-> DefaultOrdering,
                  scoped |-> FALSE, project |-> NoProject]

\* results_set=None
NoSet == [has_in |-> FALSE, in_ids |-> {}, order |-> "none",
          scoped |-> FALSE, project |-> NoProject]

\* The collections a caller can supply: unfiltered or filtered by id__in,
\* under either ordering.  id__in=[] is the statically unsatisfiable filter.
QuerySets ==
    { [has_in |-> h, in_ids |-> s, order |-> o, scoped |-> FALSE, project |-> NoProject] :
        h \in {TRUE}, s \in SUBSET Ids, o \in Orderings }
    \cup
    { [has_in |-> FALSE, in_ids |-> {}, order |-> o, scoped |-> FALSE, project |-> NoProject] :
        o \in Orderings }

\* Variant of FilterProject that leaves out the project clause.
FilterProjectUnscoped(qs, p) == qs

\* results_set.filter(project_id=p)
FilterProject(qs, p) == [qs EXCEPT !.scoped = TRUE, !.project = p]

\* Does record r satisfy the filter of qs?
Satisfies(r, qs) ==
    /\ (qs.has_in => r.id \in qs.in_ids)
    /\ (qs.scoped => r.project = qs.project)

\* The records of data store d that qs selects.
Matching(qs, d) == { r \in d : Satisfies(r, qs) }

\* The ids the ordering of qs lists, first to last.
OrderSeq(o) == [i \in 1..MaxRecords |-> IF o = "desc" THEN MaxRecords + 1 - i ELSE i]

\* The ids of the rows the query of qs returns on data store d, in order.
Rows(qs, d) ==
    SelectSeq(OrderSeq(qs.order), LAMBDA i : \E r \in Matching(qs, d) : r.id = i)

\* compiler.as_sql raises EmptyResultSet: the WHERE clause can match nothing.
IsStaticallyEmpty(qs) == qs.has_in /\ qs.in_ids = {}

\* ---------------------------------------------------------- windowed query
NoRow == [id |-> NullId, row_num |-> 0, prev |-> NullId, next |-> NullId]

\* Variant of Window with LEAD("col1", 2).
WindowLead2(rows) ==
    [i \in 1..Len(rows) |->
        [id |-> rows[i], row_num |-> i,
         prev |-> IF i > 1 THEN rows[i - 1] ELSE NullId,
         next |-> IF i + 2 <= Len(rows) THEN rows[i + 2] ELSE NullId]]

\* Variant of Window with LAG and LEAD exchanged.
WindowSwapped(rows) ==
    [i \in 1..Len(rows) |->
        [id |-> rows[i], row_num |-> i,
         prev |-> IF i < Len(rows) THEN rows[i + 1] ELSE NullId,
         next |-> IF i > 1 THEN rows[i - 1] ELSE NullId]]

\* SELECT "col1" AS id, ROW_NUMBER() OVER(), LAG("col1", 1) OVER(),
\*        LEAD("col1", 1) OVER() FROM ID_AND_ROW
Window(rows) ==
    [i \in 1..Len(rows) |->
        [id |-> rows[i], row_num |-> i,
         prev |-> IF i > 1 THEN rows[i - 1] ELSE NullId,
         next |-> IF i < Len(rows) THEN rows[i + 1] ELSE NullId]]

\* Variant of SelectWhereId without the WHERE clause.
SelectAll(w, id) == w

\* ... WHERE id = %s  with the target's id as the last parameter
SelectWhereId(w, id) == SelectSeq(w, LAMBDA x : x.id = id)

\* results_set.filter(id=x).first()
First(qs, x, d) ==
    LET m == { r \in Matching(qs, d) : r.id = x }
    IN  IF m = {} THEN NoneObj ELSE CHOOSE r \in m : TRUE

\* -------------------------------------------------------------- serializer
NoneSummary == [id |-> NullId, ref |-> 0, subject |-> ""]

\* NeighborSerializer(neighbor).data
NeighborSerializer(r) == [id |-> r.id, ref |-> r.ref, subject |-> r.subject]

serialize_neighbor(n) == IF n # NoneObj THEN NeighborSerializer(n) ELSE NoneSummary

NoOutput == [previous |-> NoneSummary, next |-> NoneSummary, set |-> FALSE]

\* The serializer context: the view (with its filtered queryset) and request.
Contexts ==
    { [view |-> TRUE, request |-> q, queryset |-> c] :
        q \in BOOLEAN, c \in QuerySets }
    \cup
    { [view |-> FALSE, request |-> q, queryset |-> NoSet] : q \in BOOLEAN }

NoContext == [view |-> FALSE, request |-> FALSE, queryset |-> NoSet]

NoPrev == [target |-> NullId, side |-> "none"]

VARIABLES
    db,           \* the data store: the set of records
    pc,           \* position of the running call
    via,          \* "direct" or "serializer": who called the resolver
    ctx,          \* the serializer's context
    obj,          \* the target instance
    arg,          \* the results_set argument
    results_set,  \* the local variable results_set
    base,         \* the queryset base_sql / base_params were compiled from
    cursor_open,  \* a cursor is held
    fetched,      \* the rows the executed statement returned
    row,          \* cursor.fetchone()
    left,
    right,
    result,       \* the value returned by the resolver
    output,       \* the value returned by the serializer method
    n_calls,      \* resolver calls made by the serializer method
    n_window,     \* windowed queries sent by this call
    n_lookup,     \* point lookups made by this call
    stable,       \* no write reached the data store since the call began
    prev          \* the call this one was chained from

vars == <<db, pc, via, ctx, obj, arg, results_set, base, cursor_open, fetched,
          row, left, right, result, output, n_calls, n_window, n_lookup,
          stable, prev>>

callvars == <<pc, via, ctx, obj, arg, results_set, base, cursor_open, fetched,
              row, left, right, result, output, n_calls, n_window, n_lookup>>

Terminal == {"done", "raised", "serialized"}

NoResult == [left |-> NoneObj, right |-> NoneObj]

Init ==
    /\ \E pm \in [Ids -> Projects \cup {NoProject}] :
          db = { Record(i, pm[i]) : i \in Ids }
    /\ pc = "idle"
    /\ via = "direct"
    /\ ctx = NoContext
    /\ obj = NoneObj
    /\ arg = NoSet
    /\ results_set = NoSet
    /\ base = NoSet
    /\ cursor_open = FALSE
    /\ fetched = <<>>
    /\ row = NoRow
    /\ left = NoneObj
    /\ right = NoneObj
    /\ result = NoResult
    /\ output = NoOutput
    /\ n_calls = 0
    /\ n_window = 0
    /\ n_lookup = 0
    /\ stable = TRUE
    /\ prev = NoPrev

\* The locals of a fresh resolver invocation.
Enter(o, rs) ==
    /\ obj' = o
    /\ arg' = rs
    /\ results_set' = rs
    /\ base' = NoSet
    /\ cursor_open' = FALSE
    /\ fetched' = <<>>
    /\ row' = NoRow
    /\ left' = NoneObj
    /\ right' = NoneObj
    /\ result' = NoResult
    /\ n_window' = 0
    /\ n_lookup' = 0
    /\ pc' = "called"

\* get_neighbors(obj, results_set) called directly.
Call(o, rs) ==
    /\ pc = "idle"
    /\ o \in db
    /\ Enter(o, rs)
    /\ via' = "direct"
    /\ ctx' = NoContext
    /\ output' = NoOutput
    /\ n_calls' = 0
    /\ stable' = TRUE
    /\ prev' = NoPrev
    /\ UNCHANGED db

\* get_neighbors called again, on the neighbor the finished call returned on
\* one side, with the same results_set.
ChainCall(side) ==
    /\ pc = "done"
    /\ via = "direct"
    /\ prev = NoPrev
    /\ stable
    /\ result[side] # NoneObj
    /\ Enter(result[side], arg)
    /\ prev' = [target |-> obj.id, side |-> side]
    /\ UNCHANGED <<db, via, ctx, output, n_calls, stable>>

\* Variant of Serialize that tests the request only.
SerializeRequestOnly(o, c) ==
    /\ pc = "idle"
    /\ o \in db
    /\ via' = "serializer"
    /\ ctx' = c
    /\ stable' = TRUE
    /\ prev' = NoPrev
    /\ IF c.request
         THEN /\ Enter(o, IF c.view THEN c.queryset ELSE NoSet)
              /\ n_calls' = 1
              /\ output' = NoOutput
         ELSE /\ obj' = o
              /\ output' = [previous |-> serialize_neighbor(NoneObj),
                            next |-> serialize_neighbor(NoneObj), set |-> TRUE]
              /\ n_calls' = 0
              /\ pc' = "serialized"
              /\ arg' = NoSet
              /\ results_set' = NoSet
              /\ base' = NoSet
              /\ cursor_open' = FALSE
              /\ fetched' = <<>>
              /\ row' = NoRow
              /\ left' = NoneObj
              /\ right' = NoneObj
              /\ result' = NoResult
              /\ n_window' = 0
              /\ n_lookup' = 0
    /\ UNCHANGED db

\* NeighborsSerializerMixin.get_neighbors(self, obj), up to the resolver call.
Serialize(o, c) ==
    /\ pc = "idle"
    /\ o \in db
    /\ via' = "serializer"
    /\ ctx' = c
    /\ stable' = TRUE
    /\ prev' = NoPrev
    /\ IF c.view /\ c.request
         THEN /\ Enter(o, c.queryset)
              /\ n_calls' = 1
              /\ output' = NoOutput
         ELSE /\ obj' = o
              /\ output' = [previous |-> serialize_neighbor(NoneObj),
                            next |-> serialize_neighbor(NoneObj), set |-> TRUE]
              /\ n_calls' = 0
              /\ pc' = "serialized"
              /\ arg' = NoSet
              /\ results_set' = NoSet
              /\ base' = NoSet
              /\ cursor_open' = FALSE
              /\ fetched' = <<>>
              /\ row' = NoRow
              /\ left' = NoneObj
              /\ right' = NoneObj
              /\ result' = NoResult
              /\ n_window' = 0
              /\ n_lookup' = 0
    /\ UNCHANGED db

\* NeighborsSerializerMixin.get_neighbors, after the resolver returned.
SerializeReturn ==
    /\ pc = "done"
    /\ via = "serializer"
    /\ output' = [previous |-> serialize_neighbor(result.left),
                  next |-> serialize_neighbor(result.right), set |-> TRUE]
    /\ pc' = "serialized"
    /\ UNCHANGED <<db, via, ctx, obj, arg, results_set, base, cursor_open,
                   fetched, row, left, right, result, n_calls, n_window,
                   n_lookup, stable, prev>>

\* Variant of Narrow that filters on the project without dereferencing it.
NarrowNoCheck ==
    /\ pc = "called"
    /\ results_set' = FilterProject(IF results_set = NoSet THEN PlainQuerySet
                                    ELSE results_set, obj.project)
    /\ pc' = "narrowed"
    /\ UNCHANGED <<db, via, ctx, obj, arg, base, cursor_open, fetched, row,
                   left, right, result, output, n_calls, n_window, n_lookup,
                   stable, prev>>

\* Lines 30-34: default the collection, then narrow it to obj.project.id;
\* obj.project is None makes the attribute access raise.
Narrow ==
    /\ pc = "called"
    /\ IF obj.project = NoProject
         THEN /\ pc' = "raised"
              /\ UNCHANGED results_set
         ELSE /\ results_set' =
                    FilterProject(IF results_set = NoSet THEN PlainQuerySet
                                  ELSE results_set, obj.project)
              /\ pc' = "narrowed"
    /\ UNCHANGED <<db, via, ctx, obj, arg, base, cursor_open, fetched, row,
                   left, right, result, output, n_calls, n_window, n_lookup,
                   stable, prev>>

\* Variant of Compile whose fallback recompiles without rebinding results_set.
CompileKeepSet ==
    /\ pc = "narrowed"
    /\ IF IsStaticallyEmpty(results_set)
         THEN /\ base' = FilterProject(PlainQuerySet, obj.project)
              /\ UNCHANGED results_set
         ELSE /\ base' = results_set
              /\ UNCHANGED results_set
    /\ pc' = "compiled"
    /\ UNCHANGED <<db, via, ctx, obj, arg, cursor_open, fetched, row, left,
                   right, result, output, n_calls, n_window, n_lookup, stable,
                   prev>>

\* Lines 36-43: compile; on EmptyResultSet replace results_set by the plain
\* collection scoped to the project and compile that.
Compile ==
    /\ pc = "narrowed"
    /\ IF IsStaticallyEmpty(results_set)
         THEN /\ results_set' = FilterProject(PlainQuerySet, obj.project)
              /\ base' = results_set'
         ELSE /\ base' = results_set
              /\ UNCHANGED results_set
    /\ pc' = "compiled"
    /\ UNCHANGED <<db, via, ctx, obj, arg, cursor_open, fetched, row, left,
                   right, result, output, n_calls, n_window, n_lookup, stable,
                   prev>>

\* Line 66: with connection.cursor() as cursor
OpenCursor ==
    /\ pc = "compiled"
    /\ cursor_open' = TRUE
    /\ pc' = "cursor"
    /\ UNCHANGED <<db, via, ctx, obj, arg, results_set, base, fetched, row,
                   left, right, result, output, n_calls, n_window, n_lookup,
                   stable, prev>>

\* Variant of Execute without the context manager: an error leaves the
\* cursor open.
ExecuteLeak(ok) ==
    /\ pc = "cursor"
    /\ n_window' = n_window + 1
    /\ IF ok
         THEN /\ fetched' = SelectWhereId(Window(Rows(base, db)), obj.id)
              /\ pc' = "executed"
              /\ UNCHANGED cursor_open
         ELSE /\ pc' = "raised"
              /\ UNCHANGED <<fetched, cursor_open>>
    /\ UNCHANGED <<db, via, ctx, obj, arg, results_set, base, row, left, right,
                   result, output, n_calls, n_lookup, stable, prev>>

\* Line 67: cursor.execute(query, params).  The data store either answers
\* with the window rows of the target or fails; the context manager closes
\* the cursor while the error propagates.
Execute(ok) ==
    /\ pc = "cursor"
    /\ n_window' = n_window + 1
    /\ IF ok
         THEN /\ fetched' = SelectWhereId(Window(Rows(base, db)), obj.id)
              /\ pc' = "executed"
              /\ UNCHANGED cursor_open
         ELSE /\ pc' = "raised"
              /\ cursor_open' = FALSE
              /\ UNCHANGED fetched
    /\ UNCHANGED <<db, via, ctx, obj, arg, results_set, base, row, left, right,
                   result, output, n_calls, n_lookup, stable, prev>>

\* Variant of Fetch without the early return on an empty fetch.
FetchNoReturn ==
    /\ pc = "executed"
    /\ row' = IF fetched = <<>> THEN NoRow ELSE Head(fetched)
    /\ cursor_open' = FALSE
    /\ pc' = "lookup_left"
    /\ UNCHANGED <<db, via, ctx, obj, arg, results_set, base, fetched, left,
                   right, result, output, n_calls, n_window, n_lookup, stable,
                   prev>>

\* Lines 68-73: fetchone; no row returns Neighbor(None, None); either way
\* the with block is left and the cursor closed.
Fetch ==
    /\ pc = "executed"
    /\ row' = IF fetched = <<>> THEN NoRow ELSE Head(fetched)
    /\ cursor_open' = FALSE
    /\ IF fetched = <<>>
         THEN /\ result' = Neighbor(NoneObj, NoneObj)
              /\ pc' = "done"
         ELSE /\ pc' = "lookup_left"
              /\ UNCHANGED result
    /\ UNCHANGED <<db, via, ctx, obj, arg, results_set, base, fetched, left,
                   right, output, n_calls, n_window, n_lookup, stable, prev>>

\* Variant of LookupLeft where a missing record propagates as an error.
LookupLeftGet ==
    /\ pc = "lookup_left"
    /\ n_lookup' = n_lookup + 1
    /\ left' = First(results_set, row.prev, db)
    /\ pc' = IF row.prev # NullId /\ left' = NoneObj THEN "raised" ELSE "lookup_right"
    /\ UNCHANGED <<db, via, ctx, obj, arg, results_set, base, cursor_open,
                   fetched, row, right, result, output, n_calls, n_window,
                   stable, prev>>

\* Lines 75-78: left = results_set.filter(id=left_object_id).first(), which
\* is None when no record matches (the except clause never fires).
LookupLeft ==
    /\ pc = "lookup_left"
    /\ n_lookup' = n_lookup + 1
    /\ left' = First(results_set, row.prev, db)
    /\ pc' = "lookup_right"
    /\ UNCHANGED <<db, via, ctx, obj, arg, results_set, base, cursor_open,
                   fetched, row, right, result, output, n_calls, n_window,
                   stable, prev>>

\* Lines 80-85: right = results_set.filter(id=right_object_id).first();
\* return Neighbor(left, right)
LookupRight ==
    /\ pc = "lookup_right"
    /\ n_lookup' = n_lookup + 1
    /\ right' = First(results_set, row.next, db)
    /\ result' = Neighbor(left, right')
    /\ pc' = "done"
    /\ UNCHANGED <<db, via, ctx, obj, arg, results_set, base, cursor_open,
                   fetched, row, left, output, n_calls, n_window, stable, prev>>

\* The caller is finished with the returned value (or the error); the
\* Neighbor pair is transient and nothing of the call is kept.  A cursor
\* that was not released stays open.
Discard ==
    /\ pc \in Terminal
    /\ (pc = "done" => via = "direct")
    /\ pc' = "idle"
    /\ via' = "direct"
    /\ ctx' = NoContext
    /\ obj' = NoneObj
    /\ arg' = NoSet
    /\ results_set' = NoSet
    /\ base' = NoSet
    /\ cursor_open' = cursor_open
    /\ fetched' = <<>>
    /\ row' = NoRow
    /\ left' = NoneObj
    /\ right' = NoneObj
    /\ result' = NoResult
    /\ output' = NoOutput
    /\ n_calls' = 0
    /\ n_window' = 0
    /\ n_lookup' = 0
    /\ stable' = TRUE
    /\ prev' = NoPrev
    /\ UNCHANGED db

\* Another request deletes a record.
Delete(r) ==
    /\ r \in db
    /\ db' = db \ {r}
    /\ stable' = FALSE
    /\ UNCHANGED <<pc, via, ctx, obj, arg, results_set, base, cursor_open,
                   fetched, row, left, right, result, output, n_calls,
                   n_window, n_lookup, prev>>

Next ==
    \/ \E o \in db, rs \in QuerySets \cup {NoSet} : Call(o, rs)
    \/ \E side \in {"left", "right"} : ChainCall(side)
    \/ \E o \in db, c \in Contexts : Serialize(o, c)
    \/ SerializeReturn
    \/ Narrow
    \/ Compile
    \/ OpenCursor
    \/ \E ok \in BOOLEAN : Execute(ok)
    \/ Fetch
    \/ LookupLeft
    \/ LookupRight
    \/ Discard
    \/ \E r \in db : Delete(r)

Spec == Init /\ [][Next]_vars

\* ------------------------------------------------------------- properties
\* The collection the caller passed (or the default one), narrowed to the
\* target's project.
Narrowed == FilterProject(IF arg = NoSet THEN PlainQuerySet ELSE arg, obj.project)

\* The plain collection of the target's type scoped to the target's project.
Fallback == FilterProject(PlainQuerySet, obj.project)

Pos(seq, x) == CHOOSE i \in 1..Len(seq) : seq[i] = x

RecOf(i) == CHOOSE r \in db : r.id = i

\* The records before and after the target in the rows of qs.
Before(qs) ==
    LET rows == Rows(qs, db)
        i == Pos(rows, obj.id)
    IN  IF i = 1 THEN NoneObj ELSE RecOf(rows[i - 1])

After(qs) ==
    LET rows == Rows(qs, db)
        i == Pos(rows, obj.id)
    IN  IF i = Len(rows) THEN NoneObj ELSE RecOf(rows[i + 1])

\* C1: when the target is in the collection narrowed to its project, the
\* call returns the record just before it as left (None for the first row)
\* and the record just after it as right (None for the last row).
C1_NeighborsInOrder ==
    (pc = "done" /\ stable /\ obj \in Matching(Narrowed, db)) =>
        /\ result.left = Before(Narrowed)
        /\ result.right = After(Narrowed)

\* A collection filtered to two ids, the target last: left found, right None,
\* and a record of the project is filtered out.
C1_Witness ==
    /\ pc = "done" /\ stable /\ obj \in Matching(Narrowed, db)
    /\ arg.has_in
    /\ result.left # NoneObj /\ result.right = NoneObj
    /\ \E r \in db : r.project = obj.project /\ r.id \notin arg.in_ids

\* C2 as stated: for any collection, statically unsatisfiable ones included,
\* every returned value is None or satisfies the collection's filter and is
\* in the target's project.
C2_Original ==
    pc \in {"done", "serialized"} =>
        \A n \in {result.left, result.right} :
            n = NoneObj \/ Satisfies(n, Narrowed)

\* C2 amended: every returned value is None or a record of the target's
\* project, and it satisfies the collection's filter unless compiling the
\* narrowed collection signalled a statically empty result.
C2_VisibleNeighbors ==
    pc \in {"done", "serialized"} =>
        \A n \in {result.left, result.right} :
            \/ n = NoneObj
            \/ /\ n.project = obj.project
               /\ (~IsStaticallyEmpty(Narrowed) => Satisfies(n, Narrowed))

\* The serializer reported a neighbor from a filtered collection while a
\* record of another project sits in the data store.
C2_Witness ==
    /\ pc = "serialized" /\ arg.has_in /\ ~IsStaticallyEmpty(Narrowed)
    /\ result.left # NoneObj
    /\ \E r \in db : r.project # obj.project /\ r.project # NoProject
                     /\ r.id \in arg.in_ids

\* C3 as stated: a target absent from the collection, whatever the filter,
\* gets (None, None).
C3_Original ==
    (pc = "done" /\ stable /\ obj \notin Matching(Narrowed, db)) =>
        result = Neighbor(NoneObj, NoneObj)

\* C3 amended: a target absent from the collection gets (None, None) unless
\* the collection's filter is statically unsatisfiable.
C3_AbsentTarget ==
    (pc = "done" /\ stable /\ obj \notin Matching(Narrowed, db)
       /\ ~IsStaticallyEmpty(Narrowed)) =>
        result = Neighbor(NoneObj, NoneObj)

\* The target is filtered out of a collection that still has rows.
C3_Witness ==
    /\ pc = "done" /\ stable /\ obj \notin Matching(Narrowed, db)
    /\ ~IsStaticallyEmpty(Narrowed)
    /\ Matching(Narrowed, db) # {}
    /\ result = Neighbor(NoneObj, NoneObj)

\* C4: on a statically empty narrowed collection the call drops the caller's
\* filters, compiles and looks up in the plain project-scoped collection, and
\* returns the target's predecessor and successor there.
C4_FallbackNeighbors ==
    (pc = "done" /\ stable /\ IsStaticallyEmpty(Narrowed)) =>
        /\ results_set = Fallback
        /\ base = Fallback
        /\ result.left = Before(Fallback)
        /\ result.right = After(Fallback)

\* The fallback found a neighbor on both sides.
C4_Witness ==
    /\ pc = "done" /\ stable /\ IsStaticallyEmpty(Narrowed)
    /\ result.left # NoneObj /\ result.right # NoneObj

\* The {id, ref, subject} summary of a returned value, None kept as None.
SummaryOf(n) ==
    IF n = NoneObj THEN NoneSummary
    ELSE [id |-> n.id, ref |-> n.ref, subject |-> n.subject]

\* C5: without a view or without a request the serializer method returns
\* previous = next = None and never calls the resolver; with both it calls
\* the resolver once, with the view's filtered queryset, and reports the
\* summary of each side.
C5_Serializer ==
    /\ n_calls <= 1
    /\ (via = "serializer" /\ ~(ctx.view /\ ctx.request)) =>
          /\ pc = "serialized"
          /\ n_calls = 0 /\ n_window = 0 /\ n_lookup = 0
          /\ output = [previous |-> NoneSummary, next |-> NoneSummary, set |-> TRUE]
    /\ (via = "serializer" /\ ctx.view /\ ctx.request) =>
          /\ n_calls = 1
          /\ arg = ctx.queryset
          /\ (pc = "serialized" =>
                output = [previous |-> SummaryOf(result.left),
                          next |-> SummaryOf(result.right), set |-> TRUE])

\* The context has a view but no request, and the target does have a
\* neighbor in the view's collection.
C5_Witness ==
    /\ pc = "serialized" /\ ctx.view /\ ~ctx.request
    /\ obj \in Matching(FilterProject(ctx.queryset, obj.project), db)
    /\ Len(Rows(FilterProject(ctx.queryset, obj.project), db)) >= 2
    /\ output.previous = NoneSummary /\ output.next = NoneSummary

\* C6: a call on a target without project ends in an error, and no query,
\* cursor or lookup happens before it.
C6_NoProjectFails ==
    (via = "direct" /\ pc # "idle" /\ obj.project = NoProject) =>
        /\ pc \in {"called", "raised"}
        /\ n_window = 0 /\ n_lookup = 0 /\ ~cursor_open

C6_Witness ==
    /\ via = "direct" /\ pc = "raised" /\ obj.project = NoProject
    /\ arg # NoSet /\ n_window = 0

\* The record id names in results_set at this moment, None if there is none.
Resolved(i) ==
    IF \E r \in db : r.id = i /\ Satisfies(r, results_set)
    THEN CHOOSE r \in db : r.id = i /\ Satisfies(r, results_set)
    ELSE NoneObj

\* C7: each point lookup yields the record its id names in the narrowed
\* collection at that moment, or None when there is none (deleted since the
\* windowed query); it never raises, and the other side is looked up all the
\* same.
C7_Step ==
    /\ (pc = "lookup_left" /\ pc' # pc) =>
          /\ pc' = "lookup_right"
          /\ left' = Resolved(row.prev)
    /\ (pc = "lookup_right" /\ pc' # pc) =>
          /\ pc' = "done"
          /\ result' = Neighbor(left, Resolved(row.next))

C7_MissingNeighbor == [][C7_Step]_vars

\* The left neighbor of the window row was deleted before its lookup; the
\* right one was found.
C7_Witness ==
    /\ pc = "done" /\ row # NoRow /\ row.prev # NullId /\ row.next # NullId
    /\ result.left = NoneObj /\ result.right # NoneObj
    /\ result.right.id = row.next

\* C8: a call sends one windowed query, then at most two point lookups and
\* none when the window returned no row; no step of the call changes the
\* data store.
C8_Counts ==
    /\ n_window <= 1 /\ n_lookup <= 2
    /\ (n_lookup > 0 => n_window = 1 /\ row # NoRow)
    /\ (pc = "done" => n_window = 1)
    /\ (pc = "done" /\ row = NoRow => n_lookup = 0)
    /\ (pc = "raised" /\ obj.project # NoProject => n_window = 1)

C8_ReadOnlyStep == (callvars' # callvars) => (db' = db)

C8_QueriesAndNoWrite == [] C8_Counts /\ [][C8_ReadOnlyStep]_vars

C8_Witness ==
    /\ pc = "done" /\ n_window = 1 /\ n_lookup = 2
    /\ result.left # NoneObj

\* C9: a cursor is held only between acquiring it and leaving the with
\* block; none is held at the point lookups nor after the call ended, by
\* return or by error.
C9_CursorReleased == cursor_open => pc \in {"cursor", "executed"}

\* The execute failed and the call ended with the cursor released.
C9_Witness == pc = "raised" /\ n_window = 1 /\ ~cursor_open

\* C10: on an unchanged data store a returned neighbor is never the target,
\* left and right differ, and the call on the right (left) neighbor with the
\* same collection returns the first target as its left (right).
C10_Symmetric ==
    (pc = "done" /\ stable) =>
        /\ result.left.id # obj.id /\ result.right.id # obj.id
        /\ (result.left # NoneObj => result.left # result.right)
        /\ (prev.side = "right" => result.left.id = prev.target)
        /\ (prev.side = "left" => result.right.id = prev.target)

\* The chained call on the right neighbor of a filtered collection ended.
C10_Witness ==
    /\ pc = "done" /\ stable /\ prev.side = "right" /\ arg.has_in
    /\ result.left.id = prev.target /\ result.right # NoneObj

====
